---- MODULE Spec2Model ----
(***************************************************************************)
(* A model of src/files/tidy.py (the Ansible "tidy" module): the criteria  *)
(* parser, the three filters, the walk that selects the delete candidates, *)
(* and the deletion loops with their silent / force policies.              *)
(*                                                                         *)
(* Strings are sequences of one-character strings ("2d" is <<"2","d">>),   *)
(* so that lowercasing, the regular expressions, glob matching, path       *)
(* joining and the lexicographic list.sort() are computed character by     *)
(* character, as Python computes them.                                     *)
(***************************************************************************)
EXTENDS Integers, Sequences, FiniteSets, TLC

\* Python's None.
None == "None"

(***************************************************************************)
(* Characters                                                              *)
(***************************************************************************)

\* ord(c) for the characters the model's strings are built from.
Ord(c) ==
  CASE c = "\n" -> 10 [] c = "*" -> 42 [] c = "-" -> 45 [] c = "." -> 46
    [] c = "/" -> 47  [] c = "0" -> 48 [] c = "1" -> 49 [] c = "2" -> 50
    [] c = "3" -> 51  [] c = "4" -> 52 [] c = "5" -> 53 [] c = "6" -> 54
    [] c = "7" -> 55  [] c = "8" -> 56 [] c = "9" -> 57 [] c = "?" -> 63
    [] c = "D" -> 68  [] c = "G" -> 71 [] c = "K" -> 75 [] c = "M" -> 77
    [] c = "W" -> 87  [] c = "a" -> 97 [] c = "b" -> 98 [] c = "c" -> 99
    [] c = "d" -> 100 [] c = "g" -> 103 [] c = "h" -> 104 [] c = "k" -> 107
    [] c = "m" -> 109 [] c = "o" -> 111 [] c = "s" -> 115 [] c = "t" -> 116
    [] c = "w" -> 119 [] c = "x" -> 120 [] c = "z" -> 122

\* str.lower() on one character.
LowerChar(c) ==
  CASE c = "D" -> "d" [] c = "G" -> "g" [] c = "K" -> "k" [] c = "M" -> "m"
    [] c = "W" -> "w" [] OTHER -> c

\* str.lower()
Lower(s) == [i \in 1..Len(s) |-> LowerChar(s[i])]

Digits == {"0", "1", "2", "3", "4", "5", "6", "7", "8", "9"}

DigitVal(c) == Ord(c) - Ord("0")

\* Python's integers have no upper bound. The ages and sizes are held as
\* the sequence of their digits in base 1000, the least significant first and
\* the most significant not 0; the number 0 is the empty sequence.
RECURSIVE Big(_)
Big(n) == IF n = 0 THEN <<>> ELSE <<n % 1000>> \o Big(n \div 1000)

RECURSIVE BigAddCarry(_, _, _)
BigAddCarry(a, b, c) ==
  IF a = <<>> /\ b = <<>> THEN Big(c)
  ELSE LET x == IF a = <<>> THEN 0 ELSE Head(a)
           y == IF b = <<>> THEN 0 ELSE Head(b)
           t == x + y + c
       IN  <<t % 1000>> \o BigAddCarry(IF a = <<>> THEN a ELSE Tail(a),
                                       IF b = <<>> THEN b ELSE Tail(b), t \div 1000)

\* a + b
BigAdd(a, b) == BigAddCarry(a, b, 0)

\* a * m + c for one digit m > 0 of base 1000 and a carry c
RECURSIVE BigTimesDigit(_, _, _)
BigTimesDigit(a, m, c) ==
  IF a = <<>> THEN Big(c)
  ELSE LET t == Head(a) * m + c
       IN  <<t % 1000>> \o BigTimesDigit(Tail(a), m, t \div 1000)

\* a * b
RECURSIVE BigMul(_, _)
BigMul(a, b) ==
  IF a = <<>> \/ b = <<>> THEN <<>>
  ELSE LET low  == IF Head(b) = 0 THEN <<>> ELSE BigTimesDigit(a, Head(b), 0)
           high == BigMul(a, Tail(b))
       IN  BigAdd(low, IF high = <<>> THEN <<>> ELSE <<0>> \o high)

\* a ** n
RECURSIVE BigPow(_, _)
BigPow(a, n) == IF n = 0 THEN Big(1) ELSE BigMul(a, BigPow(a, n - 1))

\* a <= b
RECURSIVE BigLE(_, _)
BigLE(a, b) ==
  IF Len(a) # Len(b) THEN Len(a) < Len(b)
  ELSE IF a = <<>> THEN TRUE
  ELSE IF a[Len(a)] # b[Len(b)] THEN a[Len(a)] < b[Len(b)]
  ELSE BigLE(SubSeq(a, 1, Len(a) - 1), SubSeq(b, 1, Len(b) - 1))

\* int() of a string of decimal digits.
RECURSIVE ToInt(_)
ToInt(s) ==
  IF Len(s) = 0 THEN <<>>
  ELSE BigAdd(BigMul(ToInt(SubSeq(s, 1, Len(s) - 1)), Big(10)), Big(DigitVal(s[Len(s)])))

\* Python's string comparison a < b: by character code, a proper prefix first.
StrLess(a, b) ==
  \/ /\ Len(a) < Len(b)
     /\ \A i \in 1..Len(a) : a[i] = b[i]
  \/ \E i \in 1..Len(a) :
       /\ i <= Len(b)
       /\ \A j \in 1..(i - 1) : a[j] = b[j]
       /\ Ord(a[i]) < Ord(b[i])

\* list.sort() of a list of distinct strings, given as the set of its elements.
RECURSIVE SortAsc(_)
SortAsc(S) ==
  IF S = {} THEN <<>>
  ELSE LET least == CHOOSE x \in S : \A y \in S \ {x} : StrLess(x, y)
       IN  <<least>> \o SortAsc(S \ {least})

Reverse(s) == [i \in 1..Len(s) |-> s[Len(s) + 1 - i]]

\* list.sort(reverse=r)
Sort(S, r) == IF r THEN Reverse(SortAsc(S)) ELSE SortAsc(S)

Range(s) == {s[i] : i \in 1..Len(s)}

(***************************************************************************)
(* The criteria parser (lines 159-174)                                     *)
(***************************************************************************)

seconds_per_unit(u) ==
  CASE u = "s" -> Big(1) [] u = "m" -> Big(60) [] u = "h" -> Big(3600)
    [] u = "d" -> Big(86400) [] u = "w" -> Big(604800) [] OTHER -> Big(1)

\* Mutant of bytes_per_unit: the units are the powers of 1000.
bytes_per_unit_Decimal(u) ==
  CASE u = "b" -> Big(1) [] u = "k" -> Big(1000) [] u = "m" -> BigPow(Big(1000), 2)
    [] u = "g" -> BigPow(Big(1000), 3) [] u = "t" -> BigPow(Big(1000), 4)
    [] OTHER -> Big(1)

bytes_per_unit(u) ==
  CASE u = "b" -> Big(1) [] u = "k" -> Big(1024) [] u = "m" -> BigPow(Big(1024), 2)
    [] u = "g" -> BigPow(Big(1024), 3) [] u = "t" -> BigPow(Big(1024), 4)
    [] OTHER -> Big(1)

AgeUnits == {"s", "m", "h", "d", "w"}
SizeUnits == {"b", "k", "m", "g", "t"}

\* The number of leading decimal digits of s.
RECURSIVE LeadingDigits(_)
LeadingDigits(s) ==
  IF Len(s) > 0 /\ s[1] \in Digits THEN 1 + LeadingDigits(Tail(s)) ELSE 0

\* re.match("^(\d+)(<units>)?$", s): the groups <<digits, unit or None>> of
\* the match, or <<>> when s does not match. Python's "$" matches at the end
\* of the string and also just before a newline that ends the string.
ReMatch(s, units) ==
  LET n    == LeadingDigits(s)
      rest == SubSeq(s, n + 1, Len(s))
  IN  IF n = 0 THEN <<>>
      ELSE IF rest = <<>> \/ rest = <<"\n">>
             THEN <<SubSeq(s, 1, n), None>>
      ELSE IF rest[1] \in units /\ (Len(rest) = 1 \/ Tail(rest) = <<"\n">>)
             THEN <<SubSeq(s, 1, n), rest[1]>>
      ELSE <<>>

\* Line 160 and line 169: the match objects (<<>> is "no match").
AgeMatch(raw) == ReMatch(Lower(raw), AgeUnits)
SizeMatch(raw) == ReMatch(Lower(raw), SizeUnits)

\* Line 163: the age in seconds of a string that matched.
ParseAge(raw) == BigMul(ToInt(AgeMatch(raw)[1]), seconds_per_unit(AgeMatch(raw)[2]))

\* Line 172: the size in bytes of a string that matched.
ParseSize(raw) == BigMul(ToInt(SizeMatch(raw)[1]), bytes_per_unit(SizeMatch(raw)[2]))

(***************************************************************************)
(* Glob matching (fnmatch.fnmatch, line 117) for patterns built from       *)
(* literal characters, "*" and "?".                                        *)
(***************************************************************************)

RECURSIVE fnmatch(_, _)
fnmatch(name, pat) ==
  IF Len(pat) = 0 THEN Len(name) = 0
  ELSE IF pat[1] = "*"
    THEN \E k \in 0..Len(name) : fnmatch(SubSeq(name, k + 1, Len(name)), Tail(pat))
  ELSE IF Len(name) = 0 THEN FALSE
  ELSE /\ (pat[1] = "?" \/ pat[1] = name[1])
       /\ fnmatch(Tail(name), Tail(pat))

\* The value of the matches parameter: Python's None (the default), or a list
\* of glob patterns.
NoPatterns == [none |-> TRUE, list |-> <<>>]
Patterns(list) == [none |-> FALSE, list |-> list]

\* Lines 112-119
pfilter(f, pattern) ==
  IF pattern.none THEN TRUE
  ELSE \E i \in 1..Len(pattern.list) : fnmatch(f, pattern.list[i])

(***************************************************************************)
(* Paths (os.path.join, os.path.basename, os.path.normpath)                *)
(***************************************************************************)

\* os.path.join(a, b)
join(a, b) ==
  IF Len(b) > 0 /\ b[1] = "/" THEN b
  ELSE IF Len(a) = 0 \/ a[Len(a)] = "/" THEN a \o b
  ELSE a \o <<"/">> \o b

\* os.path.basename(p): what follows the last "/".
RECURSIVE basename(_)
basename(p) ==
  IF Len(p) = 0 \/ p[Len(p)] = "/" THEN <<>>
  ELSE basename(SubSeq(p, 1, Len(p) - 1)) \o <<p[Len(p)]>>

\* p.split("/")
RECURSIVE Split(_)
Split(p) ==
  IF \A i \in 1..Len(p) : p[i] # "/" THEN <<p>>
  ELSE LET k == CHOOSE i \in 1..Len(p) : p[i] = "/" /\ \A j \in 1..(i - 1) : p[j] # "/"
       IN  <<SubSeq(p, 1, k - 1)>> \o Split(SubSeq(p, k + 1, Len(p)))

\* "/".join(comps)
RECURSIVE SlashJoin(_)
SlashJoin(comps) ==
  IF Len(comps) = 0 THEN <<>>
  ELSE IF Len(comps) = 1 THEN comps[1]
  ELSE comps[1] \o <<"/">> \o SlashJoin(Tail(comps))

\* The loop of posixpath.normpath over the components: empty and "."
\* components are dropped, ".." removes the component before it.
RECURSIVE NormComps(_, _, _)
NormComps(comps, acc, initial_slashes) ==
  IF Len(comps) = 0 THEN acc
  ELSE LET comp == comps[1]
           dotdot == <<".", ".">>
           acc2 ==
             IF comp = <<>> \/ comp = <<".">> THEN acc
             ELSE IF \/ comp # dotdot
                     \/ (initial_slashes = 0 /\ Len(acc) = 0)
                     \/ (Len(acc) > 0 /\ acc[Len(acc)] = dotdot)
                    THEN Append(acc, comp)
             ELSE IF Len(acc) > 0 THEN SubSeq(acc, 1, Len(acc) - 1)
             ELSE acc
       IN  NormComps(Tail(comps), acc2, initial_slashes)

\* os.path.normpath(path)
normpath(path) ==
  IF Len(path) = 0 THEN <<".">>
  ELSE LET starts(k) == Len(path) >= k /\ \A i \in 1..k : path[i] = "/"
           initial_slashes ==
             IF ~starts(1) THEN 0 ELSE IF starts(2) /\ ~starts(3) THEN 2 ELSE 1
           body == SlashJoin(NormComps(Split(path), <<>>, initial_slashes))
           res  == [i \in 1..initial_slashes |-> "/"] \o body
       IN  IF Len(res) = 0 THEN <<".">> ELSE res

(***************************************************************************)
(* The file system                                                         *)
(*                                                                         *)
(* A file system is a function from the paths of a fixed universe to       *)
(* entries. The tree the runs work on is /t; /o is a directory outside it  *)
(* that a symbolic link of the tree may point to.                          *)
(***************************************************************************)

P_o   == <<"/", "o">>
P_ox  == <<"/", "o", "/", "x">>
P_t   == <<"/", "t">>
P_a   == <<"/", "t", "/", "a">>
P_ab  == <<"/", "t", "/", "a", "/", "b">>
P_ax  == <<"/", "t", "/", "a", "/", "x">>
P_adb == <<"/", "t", "/", "a", ".", "b">>

Universe == {P_o, P_ox, P_t, P_a, P_ab, P_ax, P_adb}

\* The directory a path lies in.
dirname(p) == SubSeq(p, 1, Len(p) - Len(basename(p)) - 1)

\* An entry: kind is "file", "dir", "link" or "absent"; to is a link's target;
\* st holds the three timestamps and the size that os.stat reports; locked
\* says that removing the entry itself (unlink or rmdir) fails. Listing a
\* directory and reading an entry's metadata always succeed.
St(at, mt, ct, sz) == [st_atime |-> at, st_mtime |-> mt, st_ctime |-> ct, st_size |-> sz]

Absent == [kind |-> "absent", to |-> <<>>, st |-> St(0, 0, 0, 0), locked |-> FALSE]

Lookup(fs, p) == IF p \in DOMAIN fs THEN fs[p] ELSE Absent

\* Mutant of islink: no path is taken for a symbolic link.
islink_Never(fs, p) == FALSE

\* os.path.lexists, os.path.islink
lexists(fs, p) == Lookup(fs, normpath(p)).kind # "absent"
islink(fs, p) == Lookup(fs, normpath(p)).kind = "link"

\* The entry a path names once a symbolic link in its last component is
\* followed, as os.stat does.
Follow(fs, p) ==
  LET e == Lookup(fs, normpath(p))
  IN  IF e.kind = "link" THEN Lookup(fs, normpath(e.to)) ELSE e

\* The real path of the directory a path names.
RealDir(fs, p) ==
  LET e == Lookup(fs, normpath(p))
  IN  IF e.kind = "link" THEN normpath(e.to) ELSE normpath(p)

\* Mutant of isfile: a symbolic link is taken for a file without being
\* followed.
isfile_NoFollow(fs, p) == Lookup(fs, normpath(p)).kind \in {"file", "link"}

\* Mutant of exists: the candidate is not looked for before it is removed.
exists_Unchecked(fs, p) == TRUE

\* os.path.exists, os.path.isdir, os.path.isfile: all follow links.
exists(fs, p) == Follow(fs, p).kind # "absent"
isdir(fs, p)  == Follow(fs, p).kind = "dir"
isfile(fs, p) == Follow(fs, p).kind = "file"

\* os.stat(p)
stat(fs, p) == Follow(fs, p).st

\* The paths of the entries directly inside the real directory d.
Children(fs, d) == {q \in DOMAIN fs : fs[q].kind # "absent" /\ dirname(q) = d}

\* os.listdir(p), as the set of names.
listdir(fs, p) == {basename(q) : q \in Children(fs, RealDir(fs, p))}

\* The entries at or beneath the real path d.
IsPrefix(d, q) == Len(d) < Len(q) /\ SubSeq(q, 1, Len(d) + 1) = d \o <<"/">>
Beneath(fs, d) == {q \in DOMAIN fs : fs[q].kind # "absent" /\ IsPrefix(d, q)}

\* os.remove(p) / os.unlink(p): removes a file or a link; an outcome is the
\* file system left behind and whether the call returned without raising.
Unlink(fs, p) ==
  LET q == normpath(p)
      e == Lookup(fs, q)
  IN  IF e.kind \in {"file", "link"} /\ ~e.locked
        THEN [fs |-> [fs EXCEPT ![q] = Absent], ok |-> TRUE]
        ELSE [fs |-> fs, ok |-> FALSE]

\* os.rmdir(p): removes an empty directory.
Rmdir(fs, p) ==
  LET q == normpath(p)
      e == Lookup(fs, q)
  IN  IF e.kind = "dir" /\ ~e.locked /\ Children(fs, q) = {}
        THEN [fs |-> [fs EXCEPT ![q] = Absent], ok |-> TRUE]
        ELSE [fs |-> fs, ok |-> FALSE]

\* shutil.rmtree(p) with the default error handling: the entries of the
\* directory are removed one by one in os.listdir's order, which is any
\* order, sub-directories recursively, then the directory itself; the first
\* removal that fails raises and leaves what was removed before it removed.
\* The result is the set of the possible outcomes.
RECURSIVE RmTree(_, _)
RECURSIVE RmEntries(_, _, _)
RmEntries(fs, d, todo) ==
  IF todo = {} THEN {Rmdir(fs, d)}
  ELSE UNION { LET rs == IF fs[k].kind = "dir" THEN RmTree(fs, k) ELSE {Unlink(fs, k)}
               IN  UNION { IF r.ok THEN RmEntries(r.fs, d, todo \ {k}) ELSE {r} : r \in rs }
             : k \in todo }
RmTree(fs, p) ==
  LET q == normpath(p)
  IN  IF Lookup(fs, q).kind # "dir" THEN {[fs |-> fs, ok |-> FALSE]}
      ELSE RmEntries(fs, q, Children(fs, q))

(***************************************************************************)
(* The filters (lines 122-133)                                             *)
(***************************************************************************)

\* os.stat(path).__getattribute__("st_%s" % timestamp)
StatField(st, timestamp) ==
  CASE timestamp = "atime" -> st.st_atime
    [] timestamp = "mtime" -> st.st_mtime
    [] timestamp = "ctime" -> st.st_ctime

\* n >= a, for an integer n of the file system or the clock and a parsed
\* threshold a.
AtLeast(n, a) == n >= 0 /\ BigLE(a, Big(n))

\* Mutant of agefilter: an entry exactly as old as the threshold is not old
\* enough.
agefilter_Strict(fs, clock, path, a, timestamp) ==
  \/ a = Big(0)
  \/ /\ AtLeast(clock - StatField(stat(fs, path), timestamp), a)
     /\ Big(clock - StatField(stat(fs, path), timestamp)) # a

\* Lines 122-126; clock is what time.time() returns.
agefilter(fs, clock, path, a, timestamp) ==
  a = Big(0) \/ AtLeast(clock - StatField(stat(fs, path), timestamp), a)

\* Lines 129-133
sizefilter(fs, path, sz) ==
  sz = Big(0) \/ AtLeast(stat(fs, path).st_size, sz)

(***************************************************************************)
(* The selection of the candidates (lines 177-196)                         *)
(***************************************************************************)

\* The directories os.walk(top) yields when it is left to run: top, and every
\* directory beneath it that is not a symbolic link (followlinks is off).
RECURSIVE WalkRoots(_, _)
WalkRoots(fs, top) ==
  {top} \cup UNION { WalkRoots(fs, join(top, n)) :
                     n \in {m \in listdir(fs, top) :
                              isdir(fs, join(top, m)) /\ ~islink(fs, join(top, m))} }

\* Mutant of Listing: the walk goes on after the first root without recurse.
Listing_NoBreak(fs, p) ==
  UNION { {<<root, n>> : n \in listdir(fs, root)} : root \in WalkRoots(fs, p.path) }

\* Lines 178-188: the (root, fsobj) pairs the two loops go through; without
\* recurse the outer loop breaks after the first root, which is the target.
Listing(fs, p) ==
  LET roots == IF p.recurse THEN WalkRoots(fs, p.path) ELSE {p.path}
  IN  UNION { {<<root, n>> : n \in listdir(fs, root)} : root \in roots }

\* Lines 182 and 185 (and 192): the conditions under which an entry is kept.
\* Mutant of KeepDir: rmdirs is not looked at.
KeepDir_NoRmdirs(fs, clock, p, a, fsobj, fsname) ==
  pfilter(fsobj, p.matches) /\ agefilter(fs, clock, fsname, a, p.timestamp)

KeepDir(fs, clock, p, a, fsobj, fsname) ==
  pfilter(fsobj, p.matches) /\ agefilter(fs, clock, fsname, a, p.timestamp) /\ p.rmdirs

\* Mutant of KeepFile: the size filter is forgotten.
KeepFile_NoSize(fs, clock, p, a, sz, fsobj, fsname) ==
  pfilter(fsobj, p.matches) /\ agefilter(fs, clock, fsname, a, p.timestamp)

KeepFile(fs, clock, p, a, sz, fsobj, fsname) ==
  pfilter(fsobj, p.matches) /\ agefilter(fs, clock, fsname, a, p.timestamp)
    /\ sizefilter(fs, fsname, sz)

\* Lines 177-193: the paths appended to dirs_to_delete.
DirsFound(fs, clock, p, a) ==
  IF isdir(fs, p.path)
    THEN { normpath(join(e[1], e[2])) :
             e \in { e \in Listing(fs, p) :
                       LET fsname == normpath(join(e[1], e[2]))
                       IN  isdir(fs, fsname) /\ KeepDir(fs, clock, p, a, e[2], fsname) } }
    ELSE {}

\* Lines 177-193: the paths appended to files_to_delete.
FilesFound(fs, clock, p, a, sz) ==
  IF isdir(fs, p.path)
    THEN { normpath(join(e[1], e[2])) :
             e \in { e \in Listing(fs, p) :
                       LET fsname == normpath(join(e[1], e[2]))
                       IN  /\ ~isdir(fs, fsname)
                           /\ isfile(fs, fsname)
                           /\ KeepFile(fs, clock, p, a, sz, e[2], fsname) } }
  ELSE IF isfile(fs, p.path)
    THEN LET fsobj  == basename(p.path)
             fsname == normpath(p.path)
         IN  IF KeepFile(fs, clock, p, a, sz, fsobj, fsname) THEN {fsname} ELSE {}
  ELSE {}

\* Mutant of SortDirs: the directories are sorted the other way round.
SortDirs_Swapped(S, force) == Sort(S, force)

\* Lines 195-196: the two sorts.
SortFiles(S) == Sort(S, FALSE)
SortDirs(S, force) == Sort(S, ~force)

(***************************************************************************)
(* The state of a run                                                      *)
(***************************************************************************)

VARIABLES
  params,           \* module.params
  check_mode,       \* module.check_mode
  fs,               \* the file system
  now,              \* what time.time() returns during this run
  pc,               \* Idle, Parsing, Selecting, CheckModeReport, Deleting, Done, Failed
  age,              \* the parsed age (None until line 163)
  size,             \* the parsed size (None until line 172)
  files_to_delete,
  dirs_to_delete,
  deleted_files,
  deleted_dirs,
  changed,
  fi,               \* the position of the loop of line 206 in files_to_delete
  di,               \* the position of the loop of line 215 in dirs_to_delete
  result,           \* the arguments of exit_json / fail_json
  fs0,              \* history: the file system when the run started
  tried,            \* history: the candidates a removal call was made on, in order
  run,              \* history: 1 in the first run, 2 in the run that follows it
  first             \* history: what the first run selected and removed

vars == << params, check_mode, fs, now, pc, age, size, files_to_delete, dirs_to_delete,
           deleted_files, deleted_dirs, changed, fi, di, result, fs0, tried, run, first >>

NoResult == [kind |-> "none"]
NoFirst == [files_to_delete |-> <<>>, dirs_to_delete |-> <<>>,
            deleted_files |-> <<>>, deleted_dirs |-> <<>>, now |-> 0]

(***************************************************************************)
(* The steps of main()                                                     *)
(***************************************************************************)

\* Lines 152-165: the locals are set up and the age is converted to seconds.
ParseAgeStep ==
  /\ pc = "Idle"
  /\ files_to_delete' = <<>>
  /\ dirs_to_delete' = <<>>
  /\ changed' = FALSE
  /\ IF AgeMatch(params.age) # <<>>
       THEN /\ age' = ParseAge(params.age)
            /\ pc' = "Parsing"
            /\ result' = result
       ELSE /\ age' = age
            /\ pc' = "Failed"
            /\ result' = [kind |-> "fail_json", age |-> params.age,
                          msg |-> "failed to process age"]
  /\ UNCHANGED << params, check_mode, fs, now, size, deleted_files, deleted_dirs,
                  fi, di, fs0, tried, run, first >>

\* Lines 168-174: the size is converted to bytes.
ParseSizeStep ==
  /\ pc = "Parsing"
  /\ IF SizeMatch(params.size) # <<>>
       THEN /\ size' = ParseSize(params.size)
            /\ pc' = "Selecting"
            /\ result' = result
       ELSE /\ size' = size
            /\ pc' = "Failed"
            /\ result' = [kind |-> "fail_json", size |-> params.size,
                          msg |-> "failed to process size"]
  /\ UNCHANGED << params, check_mode, fs, now, age, files_to_delete, dirs_to_delete,
                  deleted_files, deleted_dirs, changed, fi, di, fs0, tried, run, first >>

\* Mutant of AfterSelect: check mode is not looked at.
AfterSelect_NoCheckMode(cm) == "Deleting"

\* Line 198: where the run goes once the candidates are sorted.
AfterSelect(cm) == IF cm = TRUE THEN "CheckModeReport" ELSE "Deleting"

\* Lines 177-198 (and 203-204 when not in check mode): the walk, the two
\* sorts and the test of check_mode.
Select ==
  /\ pc = "Selecting"
  /\ files_to_delete' = SortFiles(FilesFound(fs, now, params, age, size))
  /\ dirs_to_delete' = SortDirs(DirsFound(fs, now, params, age), params.force)
  /\ deleted_files' = <<>>
  /\ deleted_dirs' = <<>>
  /\ fi' = 1
  /\ di' = 1
  /\ pc' = AfterSelect(check_mode)
  /\ UNCHANGED << params, check_mode, fs, now, age, size, changed, result,
                  fs0, tried, run, first >>

\* Lines 199-201
CheckModeReport ==
  /\ pc = "CheckModeReport"
  /\ changed' = (IF Len(files_to_delete) > 0 \/ Len(dirs_to_delete) > 0 THEN TRUE ELSE changed)
  /\ result' = [kind |-> "exit_json", deleted_files |-> files_to_delete,
                deleted_dirs |-> dirs_to_delete, changed |-> changed']
  /\ pc' = "Done"
  /\ UNCHANGED << params, check_mode, fs, now, age, size, files_to_delete, dirs_to_delete,
                  deleted_files, deleted_dirs, fi, di, fs0, tried, run, first >>

\* Mutant of Fatal: the failure report leaves out what was deleted so far.
Fatal_NoLists(path, msg) ==
  [kind |-> "fail_json", deleted_files |-> <<>>, deleted_dirs |-> <<>>,
   path |-> path, msg |-> msg]

\* fail_json of lines 213 and 227
Fatal(path, msg) ==
  [kind |-> "fail_json", deleted_files |-> deleted_files, deleted_dirs |-> deleted_dirs,
   path |-> path, msg |-> msg]

\* Lines 206-213: one iteration of the loop over files_to_delete.
RemoveFile ==
  /\ pc = "Deleting"
  /\ fi <= Len(files_to_delete)
  /\ LET f == files_to_delete[fi]
         r == Unlink(fs, f)
     IN  /\ fs' = r.fs
         /\ tried' = Append(tried, f)
         /\ IF r.ok
              THEN /\ deleted_files' = Append(deleted_files, f)
                   /\ fi' = fi + 1
                   /\ UNCHANGED << pc, result >>
            ELSE IF params.silent
              THEN /\ fi' = fi + 1
                   /\ UNCHANGED << deleted_files, pc, result >>
            ELSE /\ result' = Fatal(f, "failed to process file")
                 /\ pc' = "Failed"
                 /\ UNCHANGED << deleted_files, fi >>
  /\ UNCHANGED << params, check_mode, now, age, size, files_to_delete, dirs_to_delete,
                  deleted_dirs, changed, di, fs0, run, first >>

\* Mutant of MayRemoveDir: the directory is not required to be empty.
MayRemoveDir_Always(f, d, force) == TRUE

\* Line 218: whether the removal of the directory d is attempted.
MayRemoveDir(f, d, force) == force \/ Cardinality(listdir(f, d)) = 0

\* Lines 215-227: one iteration of the loop over dirs_to_delete.
RemoveDir ==
  /\ pc = "Deleting"
  /\ fi > Len(files_to_delete)
  /\ di <= Len(dirs_to_delete)
  /\ LET d == dirs_to_delete[di]
     IN  IF exists(fs, d) /\ MayRemoveDir(fs, d, params.force)
           THEN \E r \in (IF islink(fs, d) THEN {Unlink(fs, d)} ELSE RmTree(fs, d)) :
                  /\ fs' = r.fs
                  /\ tried' = Append(tried, d)
                  /\ IF r.ok
                       THEN /\ deleted_dirs' = Append(deleted_dirs, d)
                            /\ di' = di + 1
                            /\ UNCHANGED << pc, result >>
                     ELSE IF params.silent
                       THEN /\ di' = di + 1
                            /\ UNCHANGED << deleted_dirs, pc, result >>
                     ELSE /\ result' = Fatal(d, "failed to process directory")
                          /\ pc' = "Failed"
                          /\ UNCHANGED << deleted_dirs, di >>
           ELSE /\ di' = di + 1
                /\ UNCHANGED << fs, tried, deleted_dirs, pc, result >>
  /\ UNCHANGED << params, check_mode, now, age, size, files_to_delete, dirs_to_delete,
                  deleted_files, changed, fi, fs0, run, first >>

\* Lines 229-231
Finish ==
  /\ pc = "Deleting"
  /\ fi > Len(files_to_delete)
  /\ di > Len(dirs_to_delete)
  /\ changed' = (IF Len(deleted_files) > 0 \/ Len(deleted_dirs) > 0 THEN TRUE ELSE changed)
  /\ result' = [kind |-> "exit_json", deleted_files |-> deleted_files,
                deleted_dirs |-> deleted_dirs, changed |-> changed']
  /\ pc' = "Done"
  /\ UNCHANGED << params, check_mode, fs, now, age, size, files_to_delete, dirs_to_delete,
                  deleted_files, deleted_dirs, fi, di, fs0, tried, run, first >>

(***************************************************************************)
(* The trees and the parameters the runs start from                        *)
(***************************************************************************)

\* At most this many entries of a tree differ from the default entry of
\* their kind (in being young, small, or impossible to remove).
MaxOdd == 1

FileEntry == [kind |-> "file", to |-> <<>>, st |-> St(0, 0, 0, 2048), locked |-> FALSE]
DirEntry  == [kind |-> "dir", to |-> <<>>, st |-> St(0, 0, 0, 64), locked |-> FALSE]
LinkEntry(target) == [kind |-> "link", to |-> target, st |-> St(0, 0, 0, 0), locked |-> FALSE]

EntryOf(kind, target) ==
  CASE kind = "file" -> FileEntry
    [] kind = "dir" -> DirEntry
    [] kind = "link" -> LinkEntry(target)
    [] OTHER -> Absent

\* The shapes: which of the paths of the universe exist, and as what. /t/a is
\* a directory or absent, /t/a/b a file, a directory, a symbolic link to /o
\* or absent, /t/a/x a file or absent, and /t/a.b a file, a symbolic link (to
\* /o or to /t/a) or absent. An entry exists only inside a directory; /o/x
\* exists only if a link leads to /o; there is at most one link.
Shapes ==
  { [q \in Universe |->
        CASE q = P_o -> DirEntry
          [] q = P_t -> DirEntry
          [] q = P_ox -> EntryOf(k.ox, <<>>)
          [] q = P_a -> EntryOf(k.a, <<>>)
          [] q = P_ab -> EntryOf(k.ab, P_o)
          [] q = P_ax -> EntryOf(k.ax, <<>>)
          [] q = P_adb -> EntryOf(k.adb, k.to)] :
      k \in { k \in [a : {"absent", "dir"}, ab : {"absent", "file", "dir", "link"},
                     ax : {"absent", "file"}, adb : {"absent", "file", "link"},
                     to : {P_o, P_a}, ox : {"absent", "file"}] :
                /\ k.a = "absent" => (k.ab = "absent" /\ k.ax = "absent")
                /\ k.adb # "link" => k.to = P_o
                /\ k.ab = "link" => k.adb = "absent"
                /\ k.ox = "file" => ((k.adb = "link" /\ k.to = P_o) \/ k.ab = "link") } }

\* The ways one entry can differ from the default. The default entry was
\* last accessed, modified and changed at time 0, and a default file has
\* 2048 bytes; a young entry was last accessed at time 1.
Oddities(e) ==
  CASE e.kind = "file" -> {"young", "small", "locked"}
    [] e.kind = "dir" -> {"young", "locked"}
    [] e.kind = "link" -> {"locked"}
    [] OTHER -> {}

MakeOdd(e, how) ==
  CASE how = "young" -> [e EXCEPT !.st.st_atime = 1]
    [] how = "small" -> [e EXCEPT !.st.st_size = 512]
    [] how = "locked" -> [e EXCEPT !.locked = TRUE]

\* The shapes with at most MaxOdd odd entries beneath /t.
Trees ==
  UNION { { [q \in Universe |-> IF q \in DOMAIN odd THEN MakeOdd(shape[q], odd[q]) ELSE shape[q]] :
              odd \in UNION { { o \in [S -> {"young", "small", "locked"}] :
                                  \A q \in S : o[q] \in Oddities(shape[q]) } :
                              S \in { S \in SUBSET Beneath(shape, P_t) : Cardinality(S) <= MaxOdd } } } :
          shape \in Shapes }

\* The shapes with timestamps that tell the three kinds apart: /t/a was
\* accessed last at time 1, /t/a/b modified last at time 1, /t/a/x changed
\* last at time 1; /t/a/x is small.
Stamped(shape) ==
  [q \in Universe |->
     IF shape[q].kind \notin {"file", "dir"} THEN shape[q]
     ELSE CASE q = P_a -> [shape[q] EXCEPT !.st.st_atime = 1]
            [] q = P_ab -> [shape[q] EXCEPT !.st.st_mtime = 1]
            [] q = P_ax -> [shape[q] EXCEPT !.st.st_ctime = 1, !.st.st_size = 512]
            [] OTHER -> shape[q]]

StampedTrees == {Stamped(shape) : shape \in Shapes}

\* The tree with every entry of the tree present.
FullTree == CHOOSE shape \in Shapes :
  /\ shape[P_ab].kind = "dir" /\ shape[P_ax].kind = "file"
  /\ shape[P_adb].kind = "link" /\ shape[P_adb].to = P_o /\ shape[P_ox].kind = "file"

Flags == [force : BOOLEAN, recurse : BOOLEAN, rmdirs : BOOLEAN, silent : BOOLEAN]

MakeParams(path, a, sz, matches, timestamp, f) ==
  [path |-> path, age |-> a, size |-> sz, matches |-> matches, timestamp |-> timestamp,
   force |-> f.force, recurse |-> f.recurse, rmdirs |-> f.rmdirs, silent |-> f.silent]

\* The raw age and size strings, well-formed and malformed.
AgeStrings ==
  { <<"0">>, <<"2">>, <<"2", "S">>, <<"1", "m">>, <<"2", "x">>, <<"-", "1">>, <<>>,
    <<"1", "g">>, <<"2", "\n">>,
    <<"1", "0">>, <<"1", "s">>, <<"1", "h">>, <<"1", "d">>, <<"2", "d">>, <<"1", "w">>,
    <<"1", "W">>, <<"0", "0", "7", "m">> }
SizeStrings ==
  { <<"0">>, <<"1", "k">>, <<"1", "K">>, <<"2", "b">>, <<"2", "x">>, <<"-", "1">>, <<>>,
    <<"1", "h">>, <<"1", "\n">>,
    <<"1">>, <<"1", "m">>, <<"1", "0", "m">>, <<"1", "g">>, <<"2", "G">>, <<"1", "t">>,
    <<"4", "2", "9", "4", "9", "6", "7", "2", "9", "6">> }

\* The values of matches.
MatchSets ==
  { NoPatterns, Patterns(<< <<"a", "*">>, <<"x">> >>), Patterns(<< <<"?">> >>),
    Patterns(<<>>) }

\* The raw target paths: the tree, spelled in two ways, a directory or a file
\* in it, a link or a file in it, and a path that does not exist.
Targets ==
  { P_t, <<"/", "t", "/">>, P_a, <<"/", "t", "/", ".", "/", "a", ".", "b">>, P_ax,
    <<"/", "t", "/", "z">> }

InitWith(tree, p, cm) ==
  /\ params = p
  /\ check_mode = cm
  /\ fs = tree
  /\ fs0 = tree
  /\ now = 2
  /\ pc = "Idle"
  /\ age = None
  /\ size = None
  /\ files_to_delete = <<>>
  /\ dirs_to_delete = <<>>
  /\ deleted_files = <<>>
  /\ deleted_dirs = <<>>
  /\ changed = FALSE
  /\ fi = 1
  /\ di = 1
  /\ result = NoResult
  /\ tried = <<>>
  /\ run = 1
  /\ first = NoFirst

\* Every tree, under every combination of the flags, with both filters on
\* attributes in force and no name patterns.
InitTrees ==
  \E tree \in Trees, f \in Flags, cm \in BOOLEAN :
    InitWith(tree, MakeParams(P_t, <<"2">>, <<"1", "k">>, NoPatterns, "atime", f), cm)

\* The stamped trees, walked recursively, under the name patterns, the three
\* kinds of timestamp, and the age and size filters on and off.
InitCriteria ==
  \E tree \in StampedTrees, m \in MatchSets,
     c \in { <<"atime", <<"0">> >>, <<"atime", <<"2">> >>, <<"mtime", <<"2">> >>,
             <<"ctime", <<"2">> >> },
     sz \in {<<"0">>, <<"1", "k">>}, rm \in BOOLEAN, cm \in BOOLEAN :
    InitWith(tree, MakeParams(P_t, c[2], sz, m, c[1],
                              [force |-> FALSE, recurse |-> TRUE, rmdirs |-> rm, silent |-> FALSE]), cm)

\* The raw age and size strings, on the full tree.
InitStrings ==
  \E a \in AgeStrings, sz \in SizeStrings, cm \in BOOLEAN :
    InitWith(FullTree, MakeParams(P_t, a, sz, NoPatterns, "atime",
                                  [force |-> FALSE, recurse |-> TRUE, rmdirs |-> TRUE,
                                   silent |-> FALSE]), cm)

\* The target paths, on every shape (where no removal fails, so that silent
\* is never read), under every combination of the other flags. The target is
\* not itself a symbolic link to a directory: what lies in it would then go
\* by the names of another directory's entries.
InitTargets ==
  \E tree \in Shapes, path \in Targets, f \in {f \in Flags : ~f.silent}, cm \in BOOLEAN :
    /\ ~(islink(tree, path) /\ isdir(tree, path))
    /\ InitWith(tree, MakeParams(path, <<"0">>, <<"0">>, NoPatterns, "atime", f), cm)

Init == InitTrees \/ InitCriteria \/ InitStrings \/ InitTargets

Next ==
  \/ ParseAgeStep
  \/ ParseSizeStep
  \/ Select
  \/ CheckModeReport
  \/ RemoveFile
  \/ RemoveDir
  \/ Finish

Spec == Init /\ [][Next]_vars

(***************************************************************************)
(* Two consecutive runs: the orchestration system invokes the module       *)
(* again, with the same parameters, on the tree the first run left. Each   *)
(* invocation is a new process; the clock may have advanced.               *)
(***************************************************************************)

\* The latest reading of the clock.
MaxNow == 3

Rerun ==
  /\ pc = "Done"
  /\ run = 1
  /\ run' = 2
  /\ first' = [files_to_delete |-> files_to_delete, dirs_to_delete |-> dirs_to_delete,
               deleted_files |-> result.deleted_files, deleted_dirs |-> result.deleted_dirs,
               now |-> now]
  /\ now' \in now..MaxNow
  /\ pc' = "Idle"
  /\ age' = None
  /\ size' = None
  /\ files_to_delete' = <<>>
  /\ dirs_to_delete' = <<>>
  /\ deleted_files' = <<>>
  /\ deleted_dirs' = <<>>
  /\ changed' = FALSE
  /\ fi' = 1
  /\ di' = 1
  /\ result' = NoResult
  /\ fs0' = fs
  /\ tried' = <<>>
  /\ UNCHANGED << params, check_mode, fs >>

NextRepeat == Next \/ Rerun

SpecRepeat == InitTrees /\ [][NextRepeat]_vars

(***************************************************************************)
(* What the properties speak of                                            *)
(***************************************************************************)

\* The paths that exist in a file system (the entry itself: a link exists
\* whatever it points to).
Entries(f) == {q \in DOMAIN f : f[q].kind # "absent"}

\* What the run has removed so far.
Removed == Entries(fs0) \ Entries(fs)

ApplyMode == check_mode = FALSE
Ended == pc \in {"Done", "Failed"}

\* The lists the run reported (none when the criteria did not parse).
ReportedFiles == IF "deleted_files" \in DOMAIN result THEN result.deleted_files ELSE <<>>
ReportedDirs == IF "deleted_dirs" \in DOMAIN result THEN result.deleted_dirs ELSE <<>>
Reported == Range(ReportedFiles) \cup Range(ReportedDirs)

\* The three filters on the entry q as it was when the run started.
NameMatches(q) == pfilter(basename(q), params.matches)
AgeMatches(q) == agefilter(fs0, now, q, age, params.timestamp)
SizeMatches(q) == sizefilter(fs0, q, size)
PassesAll(q) == NameMatches(q) /\ AgeMatches(q) /\ SizeMatches(q)

\* The directory candidates a removal call was made on.
TriedDirs == Range(tried) \cap Range(dirs_to_delete)

\* q lies beneath a directory candidate whose recursive removal was called.
BeneathTried(q) == \E d \in TriedDirs : IsPrefix(d, q)

(***************************************************************************)
(* C1                                                                      *)
(***************************************************************************)

\* C1 as stated: in apply mode every file that the run has removed passed
\* the name, age and size filters, whatever rmdirs and force are.
C1_Original ==
  ApplyMode => \A q \in Removed : fs0[q].kind = "file" => PassesAll(q)

\* C1, amended: in apply mode every file that the run has removed passed the
\* name, age and size filters, or lay beneath a directory candidate that the
\* run removed recursively under rmdirs and force; so with force or rmdirs
\* off every removed file passed all three filters.
C1_RemovedFilesPassed ==
  ApplyMode =>
    \A q \in Removed : fs0[q].kind = "file" =>
      \/ PassesAll(q)
      \/ params.rmdirs /\ params.force /\ BeneathTried(q)

\* A finished run without force that removed a file and left another file,
\* one that fails a filter, in place.
C1_Witness ==
  /\ ApplyMode /\ pc = "Done" /\ ~params.force
  /\ \E q \in Removed : fs0[q].kind = "file"
  /\ \E q \in Entries(fs) : IsPrefix(P_t, q) /\ fs[q].kind = "file" /\ ~PassesAll(q)

(***************************************************************************)
(* C2                                                                      *)
(***************************************************************************)

IsAscending(l) == \A i \in 1..(Len(l) - 1) : StrLess(l[i], l[i + 1])
IsDescending(l) == \A i \in 1..(Len(l) - 1) : StrLess(l[i + 1], l[i])

\* C2: in check mode nothing is removed and no removal is called; when the
\* run is done it has reported the sorted candidate lists in full (the
\* candidates of the tree as the run found it), and changed is true exactly
\* when one of the two lists is not empty.
C2_CheckModeRemovesNothing ==
  check_mode = TRUE =>
    /\ fs = fs0
    /\ tried = <<>>
    /\ pc # "Deleting"
    /\ pc = "Done" =>
         /\ result.kind = "exit_json"
         /\ result.deleted_files = files_to_delete
         /\ result.deleted_dirs = dirs_to_delete
         /\ Range(result.deleted_files) = FilesFound(fs0, now, params, age, size)
         /\ Range(result.deleted_dirs) = DirsFound(fs0, now, params, age)
         /\ Len(result.deleted_files) = Cardinality(Range(result.deleted_files))
         /\ Len(result.deleted_dirs) = Cardinality(Range(result.deleted_dirs))
         /\ IsAscending(result.deleted_files)
         /\ IF params.force THEN IsAscending(result.deleted_dirs)
                            ELSE IsDescending(result.deleted_dirs)
         /\ result.changed = (result.deleted_files # <<>> \/ result.deleted_dirs # <<>>)

\* A check-mode run that reported file and directory candidates, and changed.
C2_Witness ==
  /\ check_mode = TRUE /\ pc = "Done"
  /\ result.changed
  /\ result.deleted_files # <<>> /\ result.deleted_dirs # <<>>

(***************************************************************************)
(* C3                                                                      *)
(***************************************************************************)

\* The candidates in the order the two loops take them.
Candidates == files_to_delete \o dirs_to_delete

\* The run ended on a removal that failed.
RemovalFailed == pc = "Failed" /\ "path" \in DOMAIN result

\* The position in Candidates of the candidate whose removal failed.
FailedAt == CHOOSE i \in 1..Len(Candidates) : Candidates[i] = result.path

\* The sub-list of l of the elements that are in S.
RECURSIVE Only(_, _)
Only(l, S) ==
  IF l = <<>> THEN <<>>
  ELSE (IF l[1] \in S THEN <<l[1]>> ELSE <<>>) \o Only(Tail(l), S)

\* C3 as stated: in apply mode without silent, a removal that fails ends the
\* run at once (so while the run goes on, and when it is done, every removal
\* called has succeeded); a run that ended on a failed removal reports the
\* failing path, reports exactly the candidates before it that are removed,
\* in candidate order, and has neither called a removal on a candidate after
\* it nor removed one; if the failing candidate is the first file, no file is
\* removed and deleted_files is empty.
C3_Original ==
  (ApplyMode /\ ~params.silent) =>
    /\ pc \in {"Deleting", "Done"} => tried = deleted_files \o deleted_dirs
    /\ RemovalFailed =>
         /\ result.path = tried[Len(tried)]
         /\ result.deleted_files \o result.deleted_dirs
              = Only(SubSeq(Candidates, 1, FailedAt - 1), Removed)
         /\ \A i \in (FailedAt + 1)..Len(Candidates) :
              /\ Candidates[i] \notin Range(tried)
              /\ Candidates[i] \notin Removed
         /\ (files_to_delete # <<>> /\ result.path = files_to_delete[1]) =>
              /\ result.deleted_files = <<>>
              /\ \A q \in Removed : fs0[q].kind # "file"

\* C3, amended: in apply mode without silent, a removal that fails ends the
\* run at once; a run that ended on a failed removal reports the failing
\* path and reports exactly the candidates whose removal was called before
\* it, in candidate order, each of them removed; no removal was called on a
\* candidate after the failing one. With force off, the candidates after it
\* are untouched and the report is exactly the removed candidates; with
\* force on, a candidate that is removed without being reported lies beneath
\* a directory candidate whose recursive removal was called. If the failing
\* candidate is the first file, no file is removed and deleted_files is empty.
C3_AbortsAtFirstFailure ==
  (ApplyMode /\ ~params.silent) =>
    /\ pc \in {"Deleting", "Done"} => tried = deleted_files \o deleted_dirs
    /\ RemovalFailed =>
         /\ result.path = tried[Len(tried)]
         /\ result.deleted_files = deleted_files /\ result.deleted_dirs = deleted_dirs
         /\ tried = result.deleted_files \o result.deleted_dirs \o <<result.path>>
         /\ Reported \subseteq Removed
         /\ result.deleted_files \o result.deleted_dirs
              = Only(SubSeq(Candidates, 1, FailedAt - 1), Reported)
         /\ \A i \in (FailedAt + 1)..Len(Candidates) : Candidates[i] \notin Range(tried)
         /\ \A q \in (Range(Candidates) \cap Removed) \ Reported :
              params.force /\ BeneathTried(q)
         /\ ~params.force =>
              \A i \in (FailedAt + 1)..Len(Candidates) : fs[Candidates[i]] = fs0[Candidates[i]]
         /\ (files_to_delete # <<>> /\ result.path = files_to_delete[1]) =>
              /\ result.deleted_files = <<>>
              /\ \A q \in Removed : fs0[q].kind # "file"

\* A run without silent that ended on the failed removal of its second
\* candidate, with the first one removed and reported and a third one left.
C3_Witness ==
  /\ ApplyMode /\ ~params.silent /\ RemovalFailed
  /\ FailedAt = 2 /\ Len(Candidates) > 2
  /\ Reported # {}

\* A run without silent whose first file candidate of three failed.
C3_WitnessFirstFile ==
  /\ ApplyMode /\ ~params.silent /\ RemovalFailed
  /\ Len(files_to_delete) = 3 /\ result.path = files_to_delete[1]

(***************************************************************************)
(* C4                                                                      *)
(***************************************************************************)

\* C4 as stated: in apply mode with silent a run never ends Failed on a
\* removal; the candidates are taken in order, the ones whose removal failed
\* are not recorded, and when the run is done every candidate has had its
\* turn and changed is true exactly when a candidate is removed.
C4_Original ==
  (ApplyMode /\ params.silent) =>
    /\ ~RemovalFailed
    /\ tried = Only(Candidates, Range(tried))
    /\ Range(deleted_files) \cup Range(deleted_dirs) \subseteq Removed
    /\ pc = "Done" =>
         /\ fi = Len(files_to_delete) + 1 /\ di = Len(dirs_to_delete) + 1
         /\ Range(files_to_delete) \subseteq Range(tried)
         /\ result.kind = "exit_json"
         /\ result.changed = (Range(Candidates) \cap Removed # {})

(***************************************************************************)
(* C5                                                                      *)
(***************************************************************************)

\* The directory candidate whose turn it is in the loop of line 215.
DirTurn == pc = "Deleting" /\ fi > Len(files_to_delete) /\ di <= Len(dirs_to_delete)

\* C5: with force off, a step removes a directory (or a link to one) only
\* if it is empty when the step is taken; and the turn of a directory
\* candidate that exists and is not empty leaves the file system and
\* deleted_dirs as they are and goes on to the next candidate without failing.
C5_OnlyEmptyDirsWithoutForce ==
  [][ ~params.force =>
        /\ \A q \in Entries(fs) :
             (isdir(fs, q) /\ q \notin Entries(fs')) => listdir(fs, q) = {}
        /\ (DirTurn /\ exists(fs, dirs_to_delete[di]) /\ listdir(fs, dirs_to_delete[di]) # {}) =>
             /\ fs' = fs
             /\ deleted_dirs' = deleted_dirs
             /\ tried' = tried
             /\ pc' = "Deleting"
             /\ di' = di + 1 ]_vars

\* A finished run without force that removed one directory candidate and
\* left another, which is not empty, in place.
C5_Witness ==
  /\ ApplyMode /\ pc = "Done" /\ ~params.force
  /\ \E d \in Range(dirs_to_delete) : d \in Entries(fs) /\ Children(fs, d) # {}
  /\ \E d \in Range(dirs_to_delete) : d \in Removed

(***************************************************************************)
(* C6                                                                      *)
(***************************************************************************)

\* C6 as stated: when an apply-mode run has ended, the paths it reported are
\* exactly the paths it removed.
C6_Original == (ApplyMode /\ Ended) => Reported = Removed

\* C6, amended: when an apply-mode run has ended, every path it reported is
\* removed; with force off the reported paths are exactly the removed ones;
\* with force on, a removed path that is not reported lies beneath a
\* directory candidate whose recursive removal was called.
C6_ReportedAreRemoved ==
  (ApplyMode /\ Ended) =>
    /\ Reported \subseteq Removed
    /\ ~params.force => Reported = Removed
    /\ \A q \in Removed \ Reported : params.force /\ params.rmdirs /\ BeneathTried(q)

\* A run without force that ended having removed a file and a directory.
C6_Witness ==
  /\ ApplyMode /\ Ended /\ ~params.force
  /\ ReportedFiles # <<>> /\ ReportedDirs # <<>>

(***************************************************************************)
(* C7                                                                      *)
(***************************************************************************)

\* The second run has ended; fs0 is then the tree the first run left.
SecondRunEnded == run = 2 /\ Ended

\* The first run deleted all its matches: none of its candidates is left.
FirstRunDeletedAll ==
  \A q \in Range(first.files_to_delete) \cup Range(first.dirs_to_delete) : q \notin Entries(fs0)

\* The entry q had reached the age threshold at time t.
OldEnoughAt(q, t) ==
  age = <<>> \/ AtLeast(t - stat(fs0, q)[IF params.timestamp = "atime" THEN "st_atime"
                                         ELSE IF params.timestamp = "mtime" THEN "st_mtime"
                                         ELSE "st_ctime"], age)

\* No entry the first run left has reached the age threshold since.
NothingAged ==
  \A q \in Entries(fs0) : OldEnoughAt(q, now) => OldEnoughAt(q, first.now)

\* C7 as stated: if the first run deleted all its matches, the second run
\* reports changed=false and two empty lists.
C7_Original ==
  (SecondRunEnded /\ FirstRunDeletedAll) =>
    /\ "changed" \in DOMAIN result /\ result.changed = FALSE
    /\ ReportedFiles = <<>> /\ ReportedDirs = <<>>

\* C7, amended: if the first run deleted all its matches and no entry it
\* left has reached the age threshold between the two runs, the second run
\* ends Done, removes nothing and reports changed=false and two empty lists.
C7_SecondRunChangesNothing ==
  (SecondRunEnded /\ FirstRunDeletedAll /\ NothingAged) =>
    /\ pc = "Done"
    /\ result.changed = FALSE
    /\ ReportedFiles = <<>> /\ ReportedDirs = <<>>
    /\ files_to_delete = <<>> /\ dirs_to_delete = <<>>
    /\ fs = fs0

\* A second run, at a later time, after a first run that removed a file and
\* a directory, all it had selected, and left a file in the tree.
C7_Witness ==
  /\ SecondRunEnded /\ FirstRunDeletedAll /\ NothingAged
  /\ ApplyMode
  /\ now > first.now
  /\ first.deleted_files # <<>> /\ first.deleted_dirs # <<>>
  /\ \E q \in Entries(fs0) : IsPrefix(P_t, q) /\ fs0[q].kind = "file"

(***************************************************************************)
(* C8                                                                      *)
(***************************************************************************)

\* C8: when rmdirs is off, or the target is a single file, there is no
\* directory candidate, no directory is recorded or reported as deleted, and
\* no directory (nor link to one) is removed; and no path is ever in both
\* candidate lists.
C8_DirsOnlyWithRmdirs ==
  /\ (~params.rmdirs \/ isfile(fs0, params.path)) =>
       /\ dirs_to_delete = <<>>
       /\ deleted_dirs = <<>>
       /\ ReportedDirs = <<>>
       /\ \A q \in Entries(fs0) : isdir(fs0, q) => fs[q] = fs0[q]
  /\ Range(files_to_delete) \cap Range(dirs_to_delete) = {}
  /\ \A q \in Range(dirs_to_delete) : isdir(fs0, q) /\ params.rmdirs
  /\ \A q \in Range(files_to_delete) : isfile(fs0, q) /\ ~isdir(fs0, q)

\* A finished run with rmdirs off on a tree with a directory that is old
\* enough, which removed a file.
C8_Witness ==
  /\ ApplyMode /\ pc = "Done" /\ ~params.rmdirs
  /\ deleted_files # <<>>
  /\ P_a \in Entries(fs) /\ isdir(fs, P_a) /\ AgeMatches(P_a) /\ NameMatches(P_a)

(***************************************************************************)
(* C9                                                                      *)
(***************************************************************************)

\* C9: whatever the run reports (in check mode, when done, when failed), the
\* reported files are strictly ascending; the reported directories are
\* strictly ascending with force on and strictly descending with force off,
\* so that with force off a directory comes before the directories it lies
\* in and with force on after them; the candidates /t/a and /t/a/b are
\* reported /t/a/b first with force off and /t/a first with force on.
C9_ReportedListsOrdered ==
  /\ IsAscending(ReportedFiles)
  /\ IF params.force THEN IsAscending(ReportedDirs) ELSE IsDescending(ReportedDirs)
  /\ \A i, j \in 1..Len(ReportedDirs) :
       IsPrefix(ReportedDirs[i], ReportedDirs[j]) => (IF params.force THEN i < j ELSE j < i)
  /\ Range(ReportedDirs) = {P_a, P_ab} =>
       ReportedDirs = (IF params.force THEN <<P_a, P_ab>> ELSE <<P_ab, P_a>>)

\* A run with force off that reported /t/a/b and /t/a, and two files.
C9_Witness ==
  /\ ~params.force
  /\ Range(ReportedDirs) = {P_a, P_ab}
  /\ Len(ReportedFiles) >= 2

(***************************************************************************)
(* C10                                                                     *)
(***************************************************************************)

\* A well-formed criteria string: one or more digits, then at most one unit
\* letter of the parameter, in either case, and nothing else.
IsDigits(s) == s # <<>> /\ \A i \in 1..Len(s) : s[i] \in Digits
WellFormed(raw, units) ==
  \/ IsDigits(raw)
  \/ /\ Len(raw) >= 2
     /\ IsDigits(SubSeq(raw, 1, Len(raw) - 1))
     /\ LowerChar(raw[Len(raw)]) \in units
WellFormedAge(raw) == WellFormed(raw, {"s", "m", "h", "d", "w"})
WellFormedSize(raw) == WellFormed(raw, {"b", "k", "m", "g", "t"})

\* C10: a run with a malformed age or size string never gets to select or
\* to delete: it has no candidates, the file system is as it was, and when
\* it has ended it has failed, reporting the raw age if the age is malformed
\* and else the raw size.
C10_Original ==
  (~WellFormedAge(params.age) \/ ~WellFormedSize(params.size)) =>
    /\ pc \in {"Idle", "Parsing", "Failed"}
    /\ files_to_delete = <<>> /\ dirs_to_delete = <<>>
    /\ fs = fs0
    /\ tried = <<>>
    /\ pc = "Failed" =>
         /\ result.kind = "fail_json"
         /\ IF ~WellFormedAge(params.age)
              THEN "age" \in DOMAIN result /\ result.age = params.age
                   /\ "size" \notin DOMAIN result
              ELSE "size" \in DOMAIN result /\ result.size = params.size
                   /\ "age" \notin DOMAIN result
         /\ "deleted_files" \notin DOMAIN result

\* The same for the strings that end in a line feed after a well-formed
\* string set aside.
EndsInLineFeed(raw) == raw # <<>> /\ raw[Len(raw)] = "\n"
C10_MalformedButForLineFeed ==
  (/\ ~WellFormedAge(params.age) \/ ~WellFormedSize(params.size)
   /\ ~EndsInLineFeed(params.age) /\ ~EndsInLineFeed(params.size)) =>
    /\ pc \in {"Idle", "Parsing", "Failed"}
    /\ fs = fs0

\* A run that failed on a malformed age although the size is malformed too.
C10_Witness ==
  /\ pc = "Failed"
  /\ ~WellFormedAge(params.age) /\ ~WellFormedSize(params.size)
  /\ "age" \in DOMAIN result /\ result.age = params.age

(***************************************************************************)
(* C11                                                                     *)
(***************************************************************************)

\* The run has taken the age string (the size string) for a valid one.
AgeAccepted == pc \notin {"Idle", "Failed"} \/ (pc = "Failed" /\ "age" \notin DOMAIN result)
SizeAccepted == pc \notin {"Idle", "Parsing", "Failed"} \/ (pc = "Failed" /\ "path" \in DOMAIN result)

\* C11: an age string is accepted only if it is digits followed by at most
\* one of s, m, h, d, w in either case, a size string only if it is digits
\* followed by at most one of b, k, m, g, t; a run given any other string
\* fails on it, reporting the raw string, and parses nothing from it.
C11_Original ==
  /\ AgeAccepted => WellFormedAge(params.age)
  /\ SizeAccepted => WellFormedSize(params.size)
  /\ (pc # "Idle" /\ ~WellFormedAge(params.age)) =>
       /\ pc = "Failed" /\ age = None
       /\ "age" \in DOMAIN result /\ result.age = params.age
  /\ (AgeAccepted /\ pc # "Parsing" /\ ~WellFormedSize(params.size)) =>
       /\ pc = "Failed" /\ size = None
       /\ "size" \in DOMAIN result /\ result.size = params.size

\* The same, for the strings that do not end in a line feed.
C11_RejectedButForLineFeed ==
  /\ (AgeAccepted /\ ~EndsInLineFeed(params.age)) => WellFormedAge(params.age)
  /\ (SizeAccepted /\ ~EndsInLineFeed(params.size)) => WellFormedSize(params.size)

\* And every well-formed string is accepted.
C11_WellFormedAccepted ==
  /\ (pc # "Idle" /\ WellFormedAge(params.age)) => AgeAccepted
  /\ (AgeAccepted /\ pc # "Parsing" /\ WellFormedSize(params.size)) => SizeAccepted

(***************************************************************************)
(* C12                                                                     *)
(***************************************************************************)

\* The digits and the unit letter (lowercased; None when there is none) of a
\* well-formed criteria string.
HasUnit(raw) == raw[Len(raw)] \notin Digits
DigitPart(raw) == IF HasUnit(raw) THEN SubSeq(raw, 1, Len(raw) - 1) ELSE raw
UnitPart(raw) == IF HasUnit(raw) THEN LowerChar(raw[Len(raw)]) ELSE None

\* The number a string of decimal digits writes, read three digits at a
\* time from its end.
RECURSIVE StripZeros(_)
StripZeros(s) == IF s # <<>> /\ Head(s) = "0" THEN StripZeros(Tail(s)) ELSE s
RECURSIVE UpToThree(_)
UpToThree(s) == IF s = <<>> THEN 0 ELSE 10 * UpToThree(SubSeq(s, 1, Len(s) - 1)) + DigitVal(s[Len(s)])
RECURSIVE Thousands(_)
Thousands(s) ==
  IF s = <<>> THEN <<>>
  ELSE IF Len(s) <= 3 THEN <<UpToThree(s)>>
  ELSE <<UpToThree(SubSeq(s, Len(s) - 2, Len(s)))>> \o Thousands(SubSeq(s, 1, Len(s) - 3))
DecimalValue(s) == Thousands(StripZeros(s))

\* The multipliers, written out: 60, 3600, 86400, 604800 and 1024, 1048576,
\* 1073741824, 1099511627776.
AgeMultiplier(u) ==
  CASE u = None -> <<1>> [] u = "s" -> <<1>> [] u = "m" -> <<60>> [] u = "h" -> <<600, 3>>
    [] u = "d" -> <<400, 86>> [] u = "w" -> <<800, 604>>
SizeMultiplier(u) ==
  CASE u = None -> <<1>> [] u = "b" -> <<1>> [] u = "k" -> <<24, 1>> [] u = "m" -> <<576, 48, 1>>
    [] u = "g" -> <<824, 741, 73, 1>> [] u = "t" -> <<776, 627, 511, 99, 1>>

Selected == pc \in {"CheckModeReport", "Deleting", "Done"} \/ (pc = "Failed" /\ "path" \in DOMAIN result)

\* The entries in scope of a target that is a directory: its direct
\* children, and with recurse everything beneath it.
InScope ==
  IF params.recurse THEN Beneath(fs0, normpath(params.path))
                    ELSE Children(fs0, normpath(params.path))

\* C13: when the target is a directory, the file candidates are exactly the
\* files in scope that pass the name, age and size filters, and the
\* directory candidates are, with rmdirs on, exactly the directories in scope
\* that pass the name and age filters (whatever their size), and none with
\* rmdirs off; the scope is the direct children of the target without
\* recurse and everything beneath the target with it.
C13_CandidatesAreThoseInScope ==
  (Selected /\ isdir(fs0, params.path)) =>
    /\ Range(files_to_delete) =
         {q \in InScope : isfile(fs0, q) /\ NameMatches(q) /\ AgeMatches(q) /\ SizeMatches(q)}
    /\ Range(dirs_to_delete) =
         {q \in InScope : isdir(fs0, q) /\ params.rmdirs /\ NameMatches(q) /\ AgeMatches(q)}
    /\ ~params.recurse =>
         \A q \in Range(files_to_delete) \cup Range(dirs_to_delete) :
           dirname(q) = normpath(params.path)

\* With recurse, a file and a directory too small for the size filter are
\* candidates in a directory that failed the age filter.
C13_Witness ==
  /\ Selected /\ params.recurse /\ params.rmdirs
  /\ isdir(fs0, P_a) /\ ~AgeMatches(P_a) /\ P_a \notin Range(dirs_to_delete)
  /\ P_ax \in Range(files_to_delete)
  /\ P_ab \in Range(dirs_to_delete) /\ ~SizeMatches(P_ab)

\* Without recurse, a file beneath a child of the target passes the filters
\* and is no candidate, while a child of the target is one.
C13_WitnessNoRecurse ==
  /\ Selected /\ ~params.recurse /\ isdir(fs0, params.path)
  /\ isfile(fs0, P_ax) /\ PassesAll(P_ax) /\ P_ax \notin Range(files_to_delete)
  /\ params.path = P_t /\ files_to_delete # <<>>

(***************************************************************************)
(* C14                                                                     *)
(***************************************************************************)

\* The target names neither a file nor a directory: nothing is there, or a
\* symbolic link that leads nowhere.
TargetMissing == Follow(fs0, params.path).kind = "absent"

\* C14: when the target is neither an existing file nor an existing
\* directory, a run with well-formed criteria, in check mode or not, never
\* fails and never changes the file system, has no candidates, and ends Done
\* reporting two empty lists and changed=false.
C14_MissingTargetIsNoError ==
  (TargetMissing /\ WellFormedAge(params.age) /\ WellFormedSize(params.size)) =>
    /\ pc # "Failed"
    /\ fs = fs0
    /\ files_to_delete = <<>> /\ dirs_to_delete = <<>>
    /\ tried = <<>>
    /\ pc = "Done" =>
         /\ result.kind = "exit_json"
         /\ result.deleted_files = <<>> /\ result.deleted_dirs = <<>>
         /\ result.changed = FALSE

\* An apply-mode run that is done on a target that is a symbolic link
\* leading nowhere.
C14_Witness ==
  /\ ApplyMode /\ pc = "Done" /\ TargetMissing
  /\ islink(fs0, params.path)
  /\ result.changed = FALSE

\* A check-mode run that is done on a target where nothing is.
C14_WitnessCheckMode ==
  /\ ~ApplyMode /\ pc = "Done" /\ TargetMissing
  /\ ~lexists(fs0, params.path)

(***************************************************************************)
(* C15                                                                     *)
(***************************************************************************)

\* The run is done and every removal it called returned.
DoneWithoutFailure ==
  pc = "Done" /\ Range(tried) = Range(deleted_files) \cup Range(deleted_dirs)

\* Every entry in the directory d (the directory the link leads to, for a
\* link) was a candidate.
AllBeneathAreCandidates(d) ==
  \A q \in Beneath(fs0, RealDir(fs0, d)) : q \in Range(Candidates)

C15_WitnessLink ==
  /\ ApplyMode /\ ~params.force /\ params.rmdirs /\ params.recurse /\ DoneWithoutFailure
  /\ fs0[P_ab].kind = "link"
  /\ deleted_dirs = <<P_ab, P_a>>
  /\ P_a \in Removed

(***************************************************************************)
(* C16                                                                     *)
(***************************************************************************)

\* The path names nothing any more (a link that leads nowhere included).
Gone(f, q) == Follow(f, q).kind = "absent"

\* A directory candidate above d that was removed recursively.
RemovedAncestors(d) ==
  {a \in Range(deleted_dirs) : IsPrefix(a, d) /\ ~islink(fs0, a)}

\* C16: the turn of a directory candidate that does not exist any more
\* changes nothing and goes on to the next candidate: no removal is called,
\* nothing is recorded, the run does not fail, with silent on or off; and with
\* force on, a directory candidate beneath a candidate that was removed
\* recursively does not exist any more when its turn comes.
C16_GoneCandidatesAreSkipped ==
  [][ DirTurn =>
        /\ Gone(fs, dirs_to_delete[di]) =>
             /\ fs' = fs
             /\ tried' = tried
             /\ deleted_dirs' = deleted_dirs
             /\ result' = result
             /\ pc' = "Deleting"
             /\ di' = di + 1
        /\ (params.force /\ RemovedAncestors(dirs_to_delete[di]) # {}) =>
             Gone(fs, dirs_to_delete[di]) ]_vars

\* A run with force on and silent off that is done, has removed /t/a
\* recursively and has called no removal on the candidate /t/a/b beneath it.
C16_Witness ==
  /\ ApplyMode /\ params.force /\ ~params.silent /\ pc = "Done"
  /\ fs0[P_ab].kind = "dir"
  /\ P_a \in Range(deleted_dirs)
  /\ P_ab \in Range(dirs_to_delete) /\ P_ab \notin Range(tried)
  /\ P_ab \notin Range(deleted_dirs)

(***************************************************************************)
(* C17                                                                     *)
(***************************************************************************)

\* The run failed on its criteria; the run failed on a removal.
ParseFailed == pc = "Failed" /\ ("age" \in DOMAIN result \/ "size" \in DOMAIN result)
RemovalError == pc = "Failed" /\ "path" \in DOMAIN result

\* C17: a step of the run goes from Idle to Parsing, from Parsing to
\* Selecting, from Selecting to CheckModeReport in check mode and to Deleting
\* otherwise, from CheckModeReport to Done, from Deleting to Deleting, Done
\* or Failed, and from Idle or Parsing to Failed when the age or the size
\* does not parse; nothing follows Done or Failed. A run that has failed has
\* failed on its criteria or, in apply mode with silent off, on a removal; a
\* check-mode run whose criteria parsed has not failed. The file system
\* changes only in a step taken in Deleting.
C17_RunFollowsStateMachine ==
  [][ /\ << pc, pc' >> \in
           { <<"Idle", "Parsing">>, <<"Idle", "Failed">>,
             <<"Parsing", "Selecting">>, <<"Parsing", "Failed">>,
             <<"Selecting", "CheckModeReport">>, <<"Selecting", "Deleting">>,
             <<"CheckModeReport", "Done">>,
             <<"Deleting", "Deleting">>, <<"Deleting", "Done">>, <<"Deleting", "Failed">> }
      /\ pc' = "CheckModeReport" => check_mode = TRUE
      /\ pc' = "Deleting" => check_mode = FALSE
      /\ pc' = "Failed" =>
           \/ pc = "Idle" /\ "age" \in DOMAIN result' /\ AgeMatch(params.age) = <<>>
           \/ pc = "Parsing" /\ "size" \in DOMAIN result' /\ SizeMatch(params.size) = <<>>
           \/ pc = "Deleting" /\ "path" \in DOMAIN result' /\ check_mode = FALSE
                /\ ~params.silent /\ result'.path \in Range(Candidates)
      /\ check_mode = TRUE => (pc' = "Failed" => pc \in {"Idle", "Parsing"})
      /\ fs' # fs => (pc = "Deleting" /\ pc' \in {"Deleting", "Failed"})
      /\ UNCHANGED << params, check_mode, now, fs0 >> ]_vars

\* A run that went through selection and some removals and failed on one.
C17_Witness ==
  /\ RemovalError /\ ApplyMode /\ ~params.silent
  /\ deleted_files # <<>> /\ deleted_dirs # <<>>
  /\ fs # fs0

\* A check-mode run with candidates that is done.
C17_WitnessCheckMode ==
  /\ pc = "Done" /\ ~ApplyMode /\ files_to_delete # <<>> /\ fs = fs0

(***************************************************************************)
(* C18                                                                     *)
(***************************************************************************)

\* The step records the directory candidate whose turn it is as deleted.
RecordsDir == deleted_dirs' = Append(deleted_dirs, dirs_to_delete[di])

\* C18: the turn of a directory candidate that is a symbolic link changes
\* at most the link's own entry, with force on or off: the directory the
\* link leads to and what is in it stay as they are; if the link leads to a
\* directory, can be removed, and force is on or that directory is empty, the
\* link is removed and recorded. The turn of a candidate that is a real
\* directory, with force on, when it is recorded, removes the directory and
\* everything beneath it, and nothing else (a link beneath it is removed, what
\* it leads to is not).
C18_LinksAreRemovedAsLinks ==
  [][ DirTurn =>
        LET d == dirs_to_delete[di]
        IN  /\ fs[d].kind = "link" =>
                 /\ \A q \in DOMAIN fs \ {d} : fs'[q] = fs[q]
                 /\ fs'[d] \in {fs[d], Absent}
                 /\ RecordsDir <=> fs'[d] = Absent
                 /\ (~Gone(fs, d) /\ ~fs[d].locked
                       /\ (params.force \/ Children(fs, fs[d].to) = {})) => fs'[d] = Absent
            /\ (fs[d].kind = "dir" /\ params.force /\ RecordsDir) =>
                 /\ \A q \in {d} \cup Beneath(fs, d) : fs'[q] = Absent
                 /\ \A q \in DOMAIN fs \ ({d} \cup Beneath(fs, d)) : fs'[q] = fs[q] ]_vars

\* A run with force on that removed the link /t/a.b and left the directory
\* /o it leads to, and the file in it, in place.
C18_Witness ==
  /\ ApplyMode /\ params.force /\ pc = "Done"
  /\ fs0[P_adb].kind = "link" /\ fs0[P_adb].to = P_o /\ fs0[P_ox].kind = "file"
  /\ P_adb \in Range(deleted_dirs) /\ fs[P_adb] = Absent
  /\ fs[P_o] = fs0[P_o] /\ fs[P_ox] = fs0[P_ox]

\* A run with force on that removed the directory /t/a with the link /t/a/b
\* in it, and left what the link leads to in place.
C18_WitnessTree ==
  /\ ApplyMode /\ params.force /\ pc = "Done"
  /\ fs0[P_ab].kind = "link" /\ fs0[P_ox].kind = "file" /\ fs0[P_ax].kind = "file"
  /\ deleted_dirs = <<P_a>>
  /\ fs[P_a] = Absent /\ fs[P_ab] = Absent /\ fs[P_ax] = Absent
  /\ fs[P_ox] = fs0[P_ox]

(***************************************************************************)
(* C19                                                                     *)
(***************************************************************************)

\* What a check-mode run reports for the tree and the criteria of this run:
\* the selection reads neither check_mode nor anything a run changes before
\* it.
CheckModeFiles == SortFiles(FilesFound(fs0, now, params, age, size))
CheckModeDirs == SortDirs(DirsFound(fs0, now, params, age), params.force)
CheckModeChanged == CheckModeFiles # <<>> \/ CheckModeDirs # <<>>

C19_WitnessNested ==
  /\ ApplyMode /\ DoneWithoutFailure /\ params.rmdirs /\ params.force
  /\ CheckModeDirs = <<P_a, P_ab>> /\ result.deleted_dirs = <<P_a>>

(***************************************************************************)
(* C20                                                                     *)
(***************************************************************************)

\* C20: an apply-mode run that is done and reports changed=false has removed
\* nothing.
C20_Original ==
  (ApplyMode /\ pc = "Done" /\ result.changed = FALSE) => Removed = {}

\* The same holds of the runs in which force, rmdirs and silent are not all
\* three on, and of those in which every recursive removal that was called
\* returned.
C20_FaithfulButForSwallowedFailure ==
  (ApplyMode /\ pc = "Done" /\ result.changed = FALSE
     /\ (~(params.force /\ params.rmdirs /\ params.silent) \/ DoneWithoutFailure)) =>
    Removed = {}

====
